---- MODULE Spec2Model ----
(***************************************************************************)
(* State-machine model of the FileMaker synchronisation engine:            *)
(*   - TokenManager (src/src/utils/utils.ts): cached session token with a  *)
(*     sliding validity window, authentication, 401 retry;                 *)
(*   - the sync orchestrators (controllers/sync*.controller.ts, app.ts and *)
(*     services/*.service.ts): probe, pagination, transform, load.         *)
(* Time is counted in whole minutes.                                       *)
(***************************************************************************)
EXTENDS Integers, Sequences, FiniteSets, TLC

VARIABLES
    now,        \* wall clock (new Date()), in minutes
    credsOk,    \* process.env holds all four FILEMAKER_* variables
    token,      \* TokenManager.token (NoToken = null)
    lastUsed,   \* TokenManager.lastUsed (NoTime = null)
    issued,     \* number of session tokens the remote API has issued so far
    issuedAt,   \* time the cached token was issued (history)
    started,    \* number of makeAuthenticatedRequest calls started so far
    call,       \* per caller: the frame of its makeAuthenticatedRequest call
    lastGet,    \* history: the last successful getValidToken() [tok, at, clean]
    rejected,   \* history: the tokens a wrapped request was answered 401 for
    family,     \* which orchestrator family the sync run belongs to
    remoteIds,  \* recordIds of the remote found set
    remoteMod,  \* per remote record: its modId (number of remote edits)
    layoutOk,   \* the target layout is listed by the remote API
    local,      \* the local collection: a sequence of stored documents
    run,        \* the frame of the sync run in flight (or of the last one)
    runs,       \* number of sync runs started so far
    other,      \* the frame of a second run of the same entity, parked at an await
    arg,        \* the argument handed to a function of the client library
    out         \* what the function has produced for it so far

tokVars  == <<credsOk, token, lastUsed, issued, issuedAt, started, call, lastGet,
              rejected>>
syncVars == <<family, remoteIds, remoteMod, layoutOk, local, run, runs, other>>
libVars  == <<arg, out>>
vars     == <<now, tokVars, syncVars, libVars>>

----------------------------------------------------------------------------
(* Bounds of the model *)
NumCallers == 2     \* callers sharing one TokenManager
MaxCalls   == 3     \* makeAuthenticatedRequest calls per behaviour
MaxTime    == 12    \* the clock stops here
MaxIssued  == 3     \* tokens the remote API issues per behaviour
MaxId      == 3     \* remote recordIds are 1..MaxId
MaxEdits   == 1     \* remote edits per behaviour
MaxRuns    == 2     \* sync runs per behaviour
MaxClock   == 1     \* the clock of the sync specification stops here
limit      == 2     \* page size of fetchAllRecords (1000 in the source)
chunkSize  == 2     \* page size of the service orchestrators (2000 in the source)
BATCH_SIZE == 2     \* batch size of the purge load (1000 in the source)

(* Program constants *)
tokenValidityMinutes == 12
maxRetries           == 1
NoToken              == 0
NoTime               == 0 - 1

Callers == 1..NumCallers
\* The caller of the specification in which calls run one after another.
SeqCaller == CHOOSE c \in Callers : \A d \in Callers : c <= d

----------------------------------------------------------------------------
(* TokenManager: pure parts *)

\* A mutation of isTokenValid: the boundary age counts as valid.
isTokenValid_inclusive(tok, lu, t) ==
    /\ tok # NoToken
    /\ lu # NoTime
    /\ (t - lu) <= tokenValidityMinutes

\* A mutation of isTokenValid: the age is left in milliseconds, so that only
\* a token used within the same minute passes for valid.
isTokenValid_millis(tok, lu, t) ==
    /\ tok # NoToken
    /\ lu # NoTime
    /\ (t - lu) * 60000 < tokenValidityMinutes

isTokenValid(tok, lu, t) ==
    /\ tok # NoToken
    /\ lu # NoTime
    /\ (t - lu) < tokenValidityMinutes

\* A mutation of updateTokenTimestamp: the timestamp is left as it was.
updateTokenTimestamp_stale(lu, t) == lu

\* updateTokenTimestamp(): this.lastUsed = new Date(); lu is the old value.
updateTokenTimestamp(lu, t) == t

\* The frame of a call that has not started.
IdleCall ==
    [pc          |-> "idle",    \* idle, auth, request, reauth, retry, backoff, done, failed
     held        |-> NoToken,   \* the token handed to requestFn
     retries     |-> 0,         \* makeAuthenticatedRequest's retries
     authRetries |-> 0,         \* authenticateAndGetToken's retries
     err         |-> "none",    \* what the call threw
     msg         |-> <<>>,      \* the message of that error, outermost part first
     authAnswer  |-> "none",    \* the answer to the last POST /sessions
     \* history of the call
     path        |-> "none",    \* how getValidToken answered: reuse, fresh, throw, pending
     startAt     |-> NoTime,    \* when getValidToken was called
     cachedAtStart |-> NoToken, \* this.token when getValidToken was called
     luAtStart   |-> NoTime,    \* this.lastUsed when getValidToken was called
     issAtStart  |-> NoTime,    \* when the token cached at that time had been issued
     prev        |-> [tok |-> NoToken, at |-> NoTime, clean |-> FALSE],
     got         |-> NoToken,   \* the token getValidToken returned
     gotAt       |-> NoTime,    \* when it returned
     luAfter     |-> NoTime,    \* this.lastUsed when it returned
     gvPosts     |-> 0,         \* POST /sessions issued by getValidToken
     gvIssued    |-> NoToken,   \* the token the remote API issued to getValidToken
     authTok     |-> NoToken,   \* this.token when authenticateAndGetToken was entered
     authLu      |-> NoTime,    \* this.lastUsed at that time
     authCreds   |-> TRUE,      \* the credentials were all there at that time
     gvCreds     |-> TRUE,      \* the same, for the authentication of getValidToken
     authPosts   |-> 0,         \* POST /sessions issued by that authenticateAndGetToken
     raced       |-> FALSE,     \* another call was authenticating for getValidToken
                                \* while this one was
     handedAge   |-> 0,         \* the largest last-use age of a token handed to requestFn
     unauth      |-> 0,         \* 401 answers received
     nulled      |-> FALSE,     \* this.token was null right after the first 401
     rePosts     |-> 0,         \* POST /sessions issued by the 401 handler
     reTok       |-> NoToken,   \* the token the re-authentication returned
     calls       |-> 0,         \* invocations of requestFn
     lastCallTok |-> NoToken,   \* the token of the last invocation
     handedRejected |-> FALSE,  \* requestFn was handed a token that had been
                                \* answered with a 401 before
     lastAnswer  |-> "none",    \* the answer to the last invocation
     result      |-> "none"]    \* what the call returned to its caller

Terminal(c) == call[c].pc \in {"idle", "done", "failed"}

Max(a, b) == IF a >= b THEN a ELSE b

\* Answers of the remote API to a wrapped request and to POST /sessions.
Answers     == {"ok", "unauthorized", "transport", "invalid"}
AuthAnswers == {"ok", "transport", "notoken"}

\* A mutation of isUnauthorized: every failure is taken for a 401.
isUnauthorized_any(ans) == ans # "ok"

\* err.response?.status === 401
isUnauthorized(ans) == ans = "unauthorized"

\* A mutation of credentialsMissing: the variables are not looked at.
credentialsMissing_never(ok) == FALSE

\* !fmUser || !fmPassword || !fmServer || !fmDatabase, where ok says that
\* process.env holds all four.
credentialsMissing(ok) == ~ok

\* A mutation of invalidateToken: the rejected token stays cached.
invalidateToken_keep(tok) == tok

\* this.token = null in the 401 handler
invalidateToken(tok) == NoToken

\* A mutation of AuthenticationFailed: the message of the cause is dropped.
AuthenticationFailed_bare(m) == <<"Failed to authenticate">>

\* new Error(`Failed to authenticate after ${maxRetries} attempts: ${err.message}`)
AuthenticationFailed(m) == <<"Failed to authenticate">> \o m

\* new Error(`Request failed after ${maxRetries} attempts: ${err.message}`)
RequestFailed(m) == <<"Request failed">> \o m

----------------------------------------------------------------------------
(* TokenManager: steps of one makeAuthenticatedRequest call.  A step runs  *)
(* from one await of a remote answer to the next.                          *)

\* makeAuthenticatedRequest's catch block for an error that is not a 401:
\* retries++, then throw at the bound or back off and loop.
CatchOther(fr, e) ==
    LET r == fr.retries + 1 IN
    IF r >= maxRetries
    THEN [fr EXCEPT !.retries = r, !.pc = "failed", !.err = e, !.result = "error",
                    !.msg = RequestFailed(fr.msg)]
    ELSE [fr EXCEPT !.retries = r, !.pc = "backoff"]

\* The call enters the loop body: const token = await this.getValidToken().
\* Either the cached token is reused and requestFn(token) is invoked, or
\* authenticateAndGetToken() starts: it posts to /sessions, or throws on
\* missing credentials without posting.
MakeAuthenticatedRequest(c) ==
    /\ call[c].pc \in {"idle", "done", "failed", "backoff"}
    /\ started < MaxCalls
    /\ LET base == IF call[c].pc = "backoff" THEN call[c] ELSE IdleCall
           fr   == [base EXCEPT !.startAt = now, !.cachedAtStart = token,
                                !.luAtStart = lastUsed, !.issAtStart = issuedAt,
                                !.prev = lastGet, !.authRetries = 0,
                                !.path = "pending", !.gvPosts = 0]
       IN
       IF isTokenValid(token, lastUsed, now)
       THEN /\ lastUsed' = updateTokenTimestamp(lastUsed, now)
            /\ lastGet' = [tok |-> token, at |-> now, clean |-> TRUE]
            /\ call' = [call EXCEPT ![c] =
                         [fr EXCEPT !.pc = "request", !.path = "reuse",
                                    !.got = token, !.gotAt = now,
                                    !.luAfter = lastUsed',
                                    !.held = token,
                                    !.handedAge = Max(base.handedAge, now - lastUsed),
                                    !.calls = base.calls + 1,
                                    !.lastCallTok = token,
                                    !.handedRejected = @ \/ token \in rejected]]
       ELSE /\ UNCHANGED <<lastUsed, lastGet>>
            /\ IF ~credentialsMissing(credsOk)
               THEN call' = [d \in Callers |->
                              IF d = c
                              THEN [fr EXCEPT !.pc = "auth", !.gvPosts = 1,
                                              !.authTok = token,
                                              !.authLu = lastUsed,
                                              !.authCreds = credsOk,
                                              !.gvCreds = credsOk,
                                              !.authPosts = 1,
                                              !.raced = \E e \in Callers \ {c} :
                                                           call[e].pc = "auth"]
                              ELSE IF call[d].pc = "auth"
                              THEN [call[d] EXCEPT !.raced = TRUE]
                              ELSE call[d]]
               ELSE call' = [call EXCEPT ![c] =
                              CatchOther([fr EXCEPT !.path = "throw",
                                                    !.authTok = token,
                                                    !.authLu = lastUsed,
                                                    !.authCreds = credsOk,
                                                    !.gvCreds = credsOk,
                                                    !.authPosts = 0,
                                                    !.msg = AuthenticationFailed(<<"config">>),
                                                    !.authRetries = maxRetries],
                                         "config")]
    /\ started' = started + 1
    /\ UNCHANGED <<now, credsOk, token, issued, issuedAt, rejected, syncVars, libVars>>

\* The answer to getValidToken's POST /sessions arrives.
AuthResponse(c, ans) ==
    /\ call[c].pc = "auth"
    /\ IF ans = "ok"
       THEN /\ issued < MaxIssued
            /\ issued' = issued + 1
            /\ token' = issued + 1
            /\ lastUsed' = updateTokenTimestamp(lastUsed, now)
            /\ issuedAt' = now
            /\ lastGet' = [tok |-> token', at |-> now, clean |-> TRUE]
            /\ call' = [call EXCEPT ![c] =
                         [@ EXCEPT !.pc = "request", !.path = "fresh",
                                   !.got = token', !.gotAt = now,
                                   !.luAfter = lastUsed',
                                   !.gvIssued = issued',
                                   !.held = token',
                                   !.calls = @ + 1,
                                   !.lastCallTok = token',
                                   !.handedRejected = @ \/ token' \in rejected]]
       ELSE /\ UNCHANGED <<issued, token, lastUsed, issuedAt, lastGet>>
            /\ LET fr == [call[c] EXCEPT !.authAnswer = ans]
                   a  == fr.authRetries + 1
               IN IF a >= maxRetries
                  THEN call' = [call EXCEPT ![c] =
                                 CatchOther([fr EXCEPT !.authRetries = a,
                                                       !.msg = AuthenticationFailed(<<ans>>),
                                                       !.path = "throw"], "auth")]
                  ELSE call' = [call EXCEPT ![c] =
                                 [fr EXCEPT !.authRetries = a,
                                            !.gvPosts = @ + 1,
                                            !.authPosts = @ + 1]]
    /\ UNCHANGED <<now, credsOk, started, rejected, syncVars, libVars>>

\* The answer to requestFn(token) arrives.  A 401 runs the handler of the
\* catch block: this.token = null, then authenticateAndGetToken() posts to
\* /sessions (or throws on missing credentials, out of the catch block).
OpResponse(c, ans) ==
    /\ call[c].pc = "request"
    /\ LET fr == [call[c] EXCEPT
                   !.lastAnswer = ans,
                   !.unauth = IF ans = "unauthorized" THEN @ + 1 ELSE @] IN
       IF ans = "ok"
       THEN /\ call' = [call EXCEPT ![c] = [fr EXCEPT !.pc = "done", !.result = "ok"]]
            /\ UNCHANGED <<token, lastGet>>
       ELSE IF isUnauthorized(ans)
       THEN /\ token' = invalidateToken(token)
            /\ lastGet' = [lastGet EXCEPT !.clean = FALSE]
            /\ LET h == [fr EXCEPT !.retries = @ + 1,
                                   !.nulled = (token' = NoToken),
                                   !.authTok = token',
                                   !.authLu = lastUsed,
                                   !.authCreds = credsOk,
                                   !.authPosts = 0,
                                   !.authRetries = 0]
               IN IF ~credentialsMissing(credsOk)
                  THEN call' = [call EXCEPT ![c] =
                                 [h EXCEPT !.pc = "reauth", !.rePosts = @ + 1,
                                           !.authPosts = 1]]
                  ELSE call' = [call EXCEPT ![c] =
                                 [h EXCEPT !.pc = "failed", !.err = "config",
                                           !.msg = AuthenticationFailed(<<"config">>),
                                           !.authRetries = maxRetries,
                                           !.result = "error"]]
       ELSE /\ call' = [call EXCEPT ![c] =
                         CatchOther([fr EXCEPT !.msg = <<ans>>], "request")]
            /\ UNCHANGED <<token, lastGet>>
    /\ rejected' = IF ans = "unauthorized" THEN rejected \cup {call[c].held}
                    ELSE rejected
    /\ UNCHANGED <<now, credsOk, lastUsed, issued, issuedAt, started, syncVars, libVars>>

\* The answer to the 401 handler's POST /sessions arrives.  With a token the
\* handler invokes requestFn(newToken); without one authenticateAndGetToken
\* throws at its bound, and the throw leaves makeAuthenticatedRequest.
ReauthResponse(c, ans) ==
    /\ call[c].pc = "reauth"
    /\ IF ans = "ok"
       THEN /\ issued < MaxIssued
            /\ issued' = issued + 1
            /\ token' = issued + 1
            /\ lastUsed' = updateTokenTimestamp(lastUsed, now)
            /\ issuedAt' = now
            /\ call' = [call EXCEPT ![c] =
                         [@ EXCEPT !.pc = "retry", !.reTok = token',
                                   !.held = token', !.calls = @ + 1,
                                   !.lastCallTok = token',
                                   !.handedRejected = @ \/ token' \in rejected]]
       ELSE /\ UNCHANGED <<issued, token, lastUsed, issuedAt>>
            /\ LET fr == [call[c] EXCEPT !.authAnswer = ans]
                   a  == fr.authRetries + 1
               IN IF a >= maxRetries
                  THEN call' = [call EXCEPT ![c] =
                                 [fr EXCEPT !.authRetries = a, !.pc = "failed",
                                            !.err = "auth", !.result = "error",
                                            !.msg = AuthenticationFailed(<<ans>>)]]
                  ELSE call' = [call EXCEPT ![c] =
                                 [fr EXCEPT !.authRetries = a, !.rePosts = @ + 1,
                                            !.authPosts = @ + 1]]
    /\ UNCHANGED <<now, credsOk, started, lastGet, rejected, syncVars, libVars>>

\* The answer to the retried requestFn(newToken) arrives: return await, so a
\* result is returned and any error, a 401 included, leaves the call.
RetryResponse(c, ans) ==
    /\ call[c].pc = "retry"
    /\ call' = [call EXCEPT ![c] =
                 [@ EXCEPT !.lastAnswer = ans,
                           !.unauth = IF ans = "unauthorized" THEN @ + 1 ELSE @,
                           !.pc = IF ans = "ok" THEN "done" ELSE "failed",
                           !.err = IF ans = "ok" THEN "none" ELSE "request",
                           !.msg = IF ans = "ok" THEN <<>> ELSE <<ans>>,
                           !.result = IF ans = "ok" THEN "ok" ELSE "error"]]
    /\ rejected' = IF ans = "unauthorized" THEN rejected \cup {call[c].held}
                    ELSE rejected
    /\ UNCHANGED <<now, credsOk, token, lastUsed, issued, issuedAt, started,
                   lastGet, syncVars, libVars>>

\* The FILEMAKER_* variables are read from process.env at every
\* authentication: one of them goes missing while the process runs.
EnvCleared ==
    /\ credsOk
    /\ credsOk' = FALSE
    /\ UNCHANGED <<now, token, lastUsed, issued, issuedAt, started, call,
                   lastGet, rejected, syncVars, libVars>>

\* A minute passes.
Tick ==
    /\ now < MaxTime
    /\ now' = now + 1
    /\ UNCHANGED <<tokVars, syncVars, libVars>>

----------------------------------------------------------------------------
(* Sync orchestrators.  Two families share the model:                      *)
(*   "controller": do<Entity>Sync / fetchAndUpdate<Entity>s of the sync     *)
(*       controllers (layout check, probe, fetchAllRecords, then purge and  *)
(*       insertMany in batches, or one bulkWrite of upserts);               *)
(*   "service": <Entity>Service.sync<Entity> (probe, detached pagination,   *)
(*       optional deleteMany, then one save() per record).                  *)
(* The remote found set does not change while a run is in flight.          *)
Ids      == 1..MaxId
Families == {"controller", "service"}

Min(a, b) == IF a <= b THEN a ELSE b

RECURSIVE SortedIds(_)
SortedIds(S) ==
    IF S = {} THEN <<>>
    ELSE LET m == CHOOSE x \in S : \A y \in S : x <= y
         IN <<m>> \o SortedIds(S \ {m})

\* A remote record envelope { fieldData, recordId, modId }.
Envelope(i, m) == [recordId |-> i, modId |-> m, fieldData |-> [name |-> m]]

\* The found set of the run's query, in the remote's stable order.
FoundSet(ids, mods) ==
    LET o == SortedIds(ids) IN [k \in 1..Len(o) |-> Envelope(o[k], mods[o[k]])]

\* client.find(layout, query, { limit, offset }): offset is 1-based and
\* defaults to 1.
Find(ids, mods, offset, lim) ==
    LET F == FoundSet(ids, mods)
    IN [data     |-> SubSeq(F, offset, Min(offset + lim - 1, Len(F))),
        dataInfo |-> [foundCount |-> Len(F)]]

\* A mutation of processFileMakerRecord: the fields of fieldData are spread
\* last, over the attached ones.
processFileMakerRecord_fieldsLast(record, t) ==
    record.fieldData
    @@ [fileMakerRecordId |-> record.recordId,
        fileMakerModId    |-> record.modId,
        mongoCreatedAt    |-> t,
        mongoModifiedAt   |-> t,
        mongoEdited       |-> FALSE]

\* processFileMakerRecord(record), evaluated at time t:
\* { ...fieldData, fileMakerRecordId, fileMakerModId, _mongoCreatedAt,
\*   _mongoModifiedAt, _mongoEdited }; a property written after the spread
\* replaces a spread field of the same name.
processFileMakerRecord(record, t) ==
    [fileMakerRecordId |-> record.recordId,
     fileMakerModId    |-> record.modId,
     mongoCreatedAt    |-> t,
     mongoModifiedAt   |-> t,
     mongoEdited       |-> FALSE]
    @@ record.fieldData

\* new Hub({ ...fields of fieldData, recordId }) of the service orchestrators.
ServiceDoc(record) ==
    [recordId |-> record.recordId, name |-> record.fieldData.name]

\* The key of a stored document: fileMakerRecordId, or recordId for the
\* documents of the service orchestrators.
KeyOf(fam, d) == IF fam = "service" THEN d.recordId ELSE d.fileMakerRecordId

\* The clauses of a find query.  The date clause is
\* { <modification timestamp field>: `>= date` }; the exclusion clause is
\* { ModifiedBy: 'node-server', omit: 'true' }.
DateClause == [field |-> "ModificationTimestamp", value |-> "since", omit |-> FALSE]
OmitClause == [field |-> "ModifiedBy", value |-> "node-server", omit |-> TRUE]

\* The query a run assembles: query = []; if (date) query.push(date clause);
\* the sync controllers then push the exclusion clause, the services do not.
buildQuery(fam, date) ==
    (IF date THEN <<DateClause>> ELSE <<>>)
    \o (IF fam = "controller" THEN <<OmitClause>> ELSE <<>>)

\* A mutation of ProbeLimit: the probe asks for a page.
ProbeLimit_page == 1 + 1

\* getRecordCount: client.find(layoutName, query, { limit: 1 })
ProbeLimit == 1

\* A mutation of loopCounter: the last partial page is not counted.
loopCounter_floor(totalCount, lim) == totalCount \div lim

\* Math.ceil(totalCount / limit)
loopCounter(totalCount, lim) == (totalCount + lim - 1) \div lim

\* A mutation of PageOffset: the offsets are 0-based.
PageOffset_zeroBased(index, lim) == (index - 1) * lim

\* fetchAllRecords: offset = index === 1 ? 1 : (index - 1) * limit + 1
PageOffset(index, lim) == IF index = 1 THEN 1 ELSE (index - 1) * lim + 1

\* A mutation of deleteMany: the collection is left as it is.
deleteMany_keep(coll) == coll

\* Model.deleteMany({})
deleteMany(coll) == <<>>

\* Model.insertMany(docs)
insertMany(coll, docs) == coll \o docs

HasKey(fam, coll, key) == \E k \in 1..Len(coll) : KeyOf(fam, coll[k]) = key

FirstWithKey(fam, coll, key) ==
    CHOOSE k \in 1..Len(coll) :
        /\ KeyOf(fam, coll[k]) = key
        /\ \A j \in 1..(k - 1) : KeyOf(fam, coll[j]) # key

\* A mutation of updateOne: the filter matches every document, so the first
\* document of the collection is the one updated.
updateOne_anyFilter(coll, doc) ==
    IF Len(coll) > 0
    THEN [coll EXCEPT ![1] = doc]
    ELSE Append(coll, doc)

\* A mutation of updateOne: the filter matches nothing, so every operation
\* inserts.
updateOne_noMatch(coll, doc) == Append(coll, doc)

\* updateOne: { filter: { fileMakerRecordId }, update: { $set: doc }, upsert: true }
updateOne(coll, doc) ==
    IF HasKey("controller", coll, doc.fileMakerRecordId)
    THEN [coll EXCEPT ![FirstWithKey("controller", coll, doc.fileMakerRecordId)] = doc]
    ELSE Append(coll, doc)

\* Model.bulkWrite(bulkOps): the operations are applied in order.
RECURSIVE bulkWrite(_, _)
bulkWrite(coll, docs) ==
    IF docs = <<>> THEN coll
    ELSE bulkWrite(updateOne(coll, Head(docs)), Tail(docs))

\* doc.save() under the unique index on recordId: the insert is rejected
\* when a stored document has that recordId.
SaveRejected(coll, doc) == HasKey("service", coll, doc.recordId)

\* Promise.all(all.map(doc => new Model(doc).save())): every save is issued;
\* the ones the unique index rejects store nothing.
RECURSIVE saveAll(_, _)
saveAll(coll, docs) ==
    IF docs = <<>> THEN coll
    ELSE saveAll(IF SaveRejected(coll, Head(docs)) THEN coll
                 ELSE Append(coll, Head(docs)),
                 Tail(docs))

AnyRejected(coll, docs) ==
    \/ \E k \in 1..Len(docs) : SaveRejected(coll, docs[k])
    \/ \E j, k \in 1..Len(docs) : j # k /\ docs[j].recordId = docs[k].recordId

\* The frame of a run that has not started.
IdleRun ==
    [phase      |-> "idle",   \* idle, layouts, count, page, purge, insert, bulk, save,
                              \* empty, done, errored
     purge      |-> FALSE,
     date       |-> FALSE,    \* a date cutoff was supplied
     query      |-> <<>>,     \* the query assembled for the finds of the run
     total      |-> 0,        \* totalCount / totalRecords of the probe
     index      |-> 0,        \* index of fetchAllRecords, offset of the service loop
     env        |-> <<>>,     \* the envelopes fetched so far, in order
     all        |-> <<>>,     \* allRecords: the transformed records
     i          |-> 0,        \* i of the insertMany loop
     resp       |-> "none",   \* the response sent to the trigger: none, success, error
     respTotal  |-> 0,        \* total_count of the response
     \* history of the run
     responses  |-> 0,        \* responses sent to the trigger
     layoutsCalls |-> 0,      \* client.layouts() calls issued
     probes     |-> 0,        \* probe finds issued
     queries    |-> {},       \* the queries the finds of the run carried
     counted    |-> FALSE,    \* the probe has answered
     finds      |-> 0,        \* pagination finds issued
     pages      |-> <<>>,     \* their parameters { offset, limit }, in order of issue
     pageAnswers|-> 0,        \* pagination finds answered
     probeLimit |-> 0,        \* the limit parameter of the probe find
     writes     |-> 0,        \* local write calls issued
     fetchedAll |-> FALSE,    \* the pagination loop has ended
     fault      |-> FALSE,    \* a call to the local storage failed
     localBefore|-> <<>>,     \* the local collection when the run started
     found      |-> <<>>,     \* the remote found set when the run started
     prevEnded  |-> "none",   \* how the run before this one ended
     prevPurge  |-> FALSE,    \* its purge flag
     prevEnv    |-> <<>>]     \* the envelopes it fetched

RunEnded == run.phase \in {"idle", "empty", "done", "errored"}

\* A run has ended and another one can follow.
BetweenRuns == RunEnded /\ run.phase # "idle" /\ runs < MaxRuns

ChunkOf(fam) == IF fam = "service" THEN chunkSize ELSE limit

\* res.json(ResponseUtil.success({ total_count })) or
\* res.status(500).json(ResponseUtil.serverError(...))
Respond(fr, r, n) ==
    [fr EXCEPT !.resp = r, !.respTotal = n, !.responses = @ + 1]

\* The run returns: the controller family answers the trigger only now.
Done(fam, fr) ==
    IF fam = "controller"
    THEN Respond([fr EXCEPT !.phase = "done"], "success", fr.total)
    ELSE [fr EXCEPT !.phase = "done"]

\* The run throws: the handler's catch answers with a 500 unless the trigger
\* has been answered (the detached block of a service only logs).
Errored(fr) ==
    IF fr.resp = "none"
    THEN Respond([fr EXCEPT !.phase = "errored"], "error", 0)
    ELSE [fr EXCEPT !.phase = "errored"]

\* The service throws into a handler that has no catch: the handler sends
\* nothing, and the trigger is answered only if the framework forwards the
\* rejected promise to the error middleware.
Rejected(fr, forwarded) ==
    IF forwarded THEN Errored(fr) ELSE [fr EXCEPT !.phase = "errored"]

\* A mutation of AfterPages: the run waits for something that never settles.
AfterPages_hang(fam, fr0) == [fr0 EXCEPT !.fetchedAll = TRUE, !.phase = "hung"]

\* The pagination loop has ended: the load starts.
AfterPages(fam, fr0) ==
    LET fr == [fr0 EXCEPT !.fetchedAll = TRUE] IN
    IF fr.purge THEN [fr EXCEPT !.phase = "purge"]
    ELSE IF fam = "controller"
         THEN (IF Len(fr.all) > 0 THEN [fr EXCEPT !.phase = "bulk"] ELSE Done(fam, fr))
         ELSE (IF Len(fr.env) > 0 THEN [fr EXCEPT !.phase = "save"] ELSE Done(fam, fr))

\* A mutation of AfterCount: the load starts with the purge, before any page
\* has been fetched.
AfterCount_purgeFirst(fam, fr) == [fr EXCEPT !.phase = "purge"]

\* The probe has answered with records: the pagination loop is entered, and
\* its first find is issued if the loop condition holds.
AfterCount(fam, fr) ==
    IF fam = "controller"
    THEN IF 1 <= loopCounter(fr.total, limit)
         THEN [fr EXCEPT !.phase = "page", !.index = 1, !.finds = 1,
                         !.pages = <<[offset |-> PageOffset(1, limit),
                                      limit |-> limit]>>,
                         !.queries = @ \cup {fr.query}]
         ELSE AfterPages(fam, fr)
    ELSE IF 1 <= fr.total
         THEN [fr EXCEPT !.phase = "page", !.index = 1, !.finds = 1,
                         !.pages = <<[offset |-> 1, limit |-> chunkSize]>>,
                         !.queries = @ \cup {fr.query}]
         ELSE AfterPages(fam, fr)

\* A mutation of admits: a request is turned away while a run of the entity
\* is in flight.
admits_exclusive(fr) == fr.phase \in {"idle", "empty", "done", "errored"}

\* What sync<Entity>s checks of the other run of its entity before it starts
\* one: nothing, there is no flag, lock or queue.
admits(fr) == TRUE

\* POST to the sync endpoint: sync<Entity>s(req, res) with purge = p and a
\* date cutoff when d.  The query is assembled; the controller family then
\* lists the layouts, the service family sends the probe.
SyncStart(p, d) ==
    /\ RunEnded
    /\ admits(other)
    /\ runs < MaxRuns
    /\ runs' = runs + 1
    /\ run' = [IdleRun EXCEPT
                 !.phase = IF family = "controller" THEN "layouts" ELSE "count",
                 !.purge = p,
                 !.date = d,
                 !.query = buildQuery(family, d),
                 !.layoutsCalls = IF family = "controller" THEN 1 ELSE 0,
                 !.probes = IF family = "controller" THEN 0 ELSE 1,
                 !.probeLimit = IF family = "controller" THEN 0 ELSE ProbeLimit,
                 !.queries = IF family = "controller" THEN {}
                             ELSE {buildQuery(family, d)},
                 !.localBefore = local,
                 !.found = FoundSet(remoteIds, remoteMod),
                 !.prevEnded = run.phase,
                 !.prevPurge = run.purge,
                 !.prevEnv = run.env]
    /\ UNCHANGED <<now, tokVars, libVars, other, family, remoteIds, remoteMod, layoutOk, local>>

\* The answer to client.layouts() arrives; the probe is issued when the
\* layout is listed.
LayoutsResponse(ok) ==
    /\ run.phase = "layouts"
    /\ run' = IF ok /\ layoutOk
              THEN [run EXCEPT !.phase = "count", !.probes = 1,
                               !.probeLimit = ProbeLimit,
                               !.queries = {run.query}]
              ELSE Errored(run)
    /\ UNCHANGED <<now, tokVars, libVars, other, family, remoteIds, remoteMod, layoutOk, local, runs>>

\* The answer to the probe find({ limit: 1 }) arrives; a find on a layout
\* the remote does not have is never answered with records.
CountResponse(ok, forwarded) ==
    /\ run.phase = "count"
    /\ ok => layoutOk
    /\ (family = "controller" \/ ok) => forwarded
    /\ LET res   == Find(remoteIds, remoteMod, 1, ProbeLimit)
           total == res.dataInfo.foundCount
           fr    == [run EXCEPT !.total = total, !.counted = TRUE]
       IN
       IF ~ok
       THEN run' = IF family = "controller" THEN Errored(run)
                   ELSE Rejected(run, forwarded)
       ELSE IF family = "controller"
       THEN IF total = 0
            THEN run' = Respond([fr EXCEPT !.phase = "empty"], "success", 0)
            ELSE run' = AfterCount(family, fr)
       ELSE run' = AfterCount(family, Respond(fr, "success", total))
    /\ UNCHANGED <<now, tokVars, libVars, other, family, remoteIds, remoteMod, layoutOk, local, runs>>

\* The answer to a pagination find arrives; the next page is requested or
\* the load starts.
PageResponse(ok) ==
    /\ run.phase = "page"
    /\ ok => layoutOk
    /\ IF ~ok THEN run' = Errored([run EXCEPT !.pageAnswers = @ + 1])
       ELSE IF family = "controller"
       THEN LET res == Find(remoteIds, remoteMod, PageOffset(run.index, limit), limit)
                fr  == [run EXCEPT
                          !.env = @ \o res.data,
                          !.all = @ \o [k \in 1..Len(res.data) |->
                                          processFileMakerRecord(res.data[k], now)],
                          !.index = @ + 1,
                          !.pageAnswers = @ + 1]
            IN IF fr.index <= loopCounter(run.total, limit)
               THEN run' = [fr EXCEPT !.finds = @ + 1,
                                         !.pages = Append(@,
                                             [offset |-> PageOffset(fr.index, limit),
                                              limit |-> limit]),
                                         !.queries = @ \cup {run.query}]
               ELSE run' = AfterPages(family, fr)
       ELSE LET res == Find(remoteIds, remoteMod, run.index, chunkSize)
                fr  == [run EXCEPT !.env = @ \o res.data,
                                   !.index = @ + chunkSize,
                                   !.pageAnswers = @ + 1]
            IN IF fr.index <= run.total
               THEN run' = [fr EXCEPT !.finds = @ + 1,
                                         !.pages = Append(@,
                                             [offset |-> fr.index,
                                              limit |-> chunkSize]),
                                         !.queries = @ \cup {run.query}]
               ELSE run' = AfterPages(family, fr)
    /\ UNCHANGED <<now, tokVars, libVars, other, family, remoteIds, remoteMod, layoutOk, local, runs>>

\* await Model.deleteMany({}) of a purge.
DeleteMany(ok) ==
    /\ run.phase = "purge"
    /\ IF ~ok
       THEN /\ run' = Errored([run EXCEPT !.writes = @ + 1, !.fault = TRUE])
            /\ UNCHANGED local
       ELSE /\ local' = deleteMany(local)
            /\ LET fr == [run EXCEPT !.writes = @ + 1, !.i = 0]
                   n  == IF family = "controller" THEN Len(run.all) ELSE Len(run.env)
               IN run' = IF n = 0 THEN Done(family, fr)
                         ELSE [fr EXCEPT !.phase = IF family = "controller"
                                                   THEN "insert" ELSE "save"]
    /\ UNCHANGED <<now, tokVars, libVars, other, family, remoteIds, remoteMod, layoutOk, runs>>

\* A mutation of insertManyThrows: the loop goes on with the next batch.
insertManyThrows_goOn(fam, fr) ==
    LET g == [fr EXCEPT !.writes = @ + 1, !.fault = TRUE, !.i = @ + BATCH_SIZE]
    IN IF g.i < Len(fr.all) THEN g ELSE Done(fam, g)

\* insertMany throws: the error leaves the loop and fetchAndUpdate<Entity>s
\* through its catch block, which rethrows.
insertManyThrows(fam, fr) ==
    Errored([fr EXCEPT !.writes = @ + 1, !.fault = TRUE])

\* await Model.insertMany(all.slice(i, i + BATCH_SIZE)) of the purge load.
\* A failing insertMany has stored the first n documents of the batch.
InsertBatch(ok, n) ==
    /\ run.phase = "insert"
    /\ LET batch == SubSeq(run.all, run.i + 1,
                           Min(run.i + BATCH_SIZE, Len(run.all)))
       IN IF ~ok
          THEN /\ n < Len(batch)
               /\ run' = insertManyThrows(family, run)
               /\ local' = insertMany(local, SubSeq(batch, 1, n))
          ELSE /\ n = 0
               /\ local' = insertMany(local, batch)
               /\ LET fr == [run EXCEPT !.writes = @ + 1, !.i = @ + BATCH_SIZE]
                  IN run' = IF fr.i < Len(run.all) THEN fr ELSE Done(family, fr)
    /\ UNCHANGED <<now, tokVars, libVars, other, family, remoteIds, remoteMod, layoutOk, runs>>

\* await Model.bulkWrite(bulkOps) of the upsert load.
BulkWrite(ok) ==
    /\ run.phase = "bulk"
    /\ IF ~ok
       THEN /\ run' = Errored([run EXCEPT !.writes = @ + 1, !.fault = TRUE])
            /\ UNCHANGED local
       ELSE /\ local' = bulkWrite(local, run.all)
            /\ run' = Done(family, [run EXCEPT !.writes = @ + 1])
    /\ UNCHANGED <<now, tokVars, libVars, other, family, remoteIds, remoteMod, layoutOk, runs>>

\* await Promise.all(all.map(... save())) of the service load.
SaveAll(ok) ==
    /\ run.phase = "save"
    /\ LET docs == [k \in 1..Len(run.env) |-> ServiceDoc(run.env[k])] IN
       IF ~ok
       THEN /\ run' = Errored([run EXCEPT !.writes = @ + 1, !.fault = TRUE])
            /\ UNCHANGED local
       ELSE /\ local' = saveAll(local, docs)
            /\ LET fr == [run EXCEPT !.writes = @ + 1, !.all = docs]
               IN run' = IF AnyRejected(local, docs) THEN Errored(fr)
                         ELSE Done(family, fr)
    /\ UNCHANGED <<now, tokVars, libVars, other, family, remoteIds, remoteMod, layoutOk, runs>>

EditsSoFar == Cardinality({i \in Ids : remoteMod[i] > 0})

\* Between two runs a record of the found set is edited at the remote: its
\* modId and its field value change.
RemoteEdit(i) ==
    /\ BetweenRuns
    /\ i \in remoteIds
    /\ remoteMod[i] = 0
    /\ EditsSoFar < MaxEdits
    /\ remoteMod' = [remoteMod EXCEPT ![i] = 1]
    /\ UNCHANGED <<now, tokVars, libVars, other, family, remoteIds, layoutOk, local, run, runs>>

\* A minute passes between two runs (a run is short against the clock).
TickSync ==
    /\ BetweenRuns
    /\ now < MaxClock
    /\ now' = now + 1
    /\ UNCHANGED <<tokVars, syncVars, libVars>>

\* The collection an earlier run at time 0 left for the records S.
InitialLocal(fam, S) ==
    LET F == FoundSet(S, [i \in Ids |-> 0])
    IN [k \in 1..Len(F) |->
          IF fam = "service" THEN ServiceDoc(F[k])
          ELSE processFileMakerRecord(F[k], 0)]

\* No function of the client library has been handed an argument.
InitLibIdle ==
    /\ arg = <<>>
    /\ out = <<>>

InitSyncIdle ==
    /\ family = "controller"
    /\ remoteIds = {}
    /\ remoteMod = [i \in Ids |-> 0]
    /\ layoutOk = TRUE
    /\ local = <<>>
    /\ run = IdleRun
    /\ runs = 0
    /\ other = IdleRun

InitTok ==
    /\ now = 0
    /\ credsOk \in BOOLEAN
    /\ token = NoToken
    /\ lastUsed = NoTime
    /\ issued = 0
    /\ issuedAt = NoTime
    /\ started = 0
    /\ call = [c \in Callers |-> IdleCall]
    /\ lastGet = [tok |-> NoToken, at |-> NoTime, clean |-> FALSE]
    /\ rejected = {}
    /\ InitSyncIdle
    /\ InitLibIdle

\* One TokenManager whose callers run one after another.
NextTok ==
    \/ MakeAuthenticatedRequest(SeqCaller)
    \/ \E ans \in AuthAnswers : AuthResponse(SeqCaller, ans)
    \/ \E ans \in Answers : OpResponse(SeqCaller, ans)
    \/ \E ans \in AuthAnswers : ReauthResponse(SeqCaller, ans)
    \/ \E ans \in Answers : RetryResponse(SeqCaller, ans)
    \/ Tick

SpecTok == InitTok /\ [][NextTok]_vars

\* The TokenManager a minute before the end of the clock: nothing is cached,
\* or the token issued and last used at time 0 is.
InitTokLate ==
    /\ now = MaxTime - 1
    /\ credsOk = TRUE
    /\ \E cached \in BOOLEAN :
          /\ token = IF cached THEN 1 ELSE NoToken
          /\ lastUsed = IF cached THEN 0 ELSE NoTime
          /\ issued = IF cached THEN 1 ELSE 0
          /\ issuedAt = IF cached THEN 0 ELSE NoTime
          /\ lastGet = [tok |-> token, at |-> lastUsed, clean |-> cached]
    /\ started = 0
    /\ call = [c \in Callers |-> IdleCall]
    /\ rejected = {}
    /\ InitSyncIdle
    /\ InitLibIdle

\* One TokenManager shared by callers whose calls interleave at the awaits.
NextTokConc ==
    \/ \E c \in Callers : MakeAuthenticatedRequest(c)
    \/ \E c \in Callers, ans \in AuthAnswers : AuthResponse(c, ans)
    \/ \E c \in Callers, ans \in Answers : OpResponse(c, ans)
    \/ \E c \in Callers, ans \in AuthAnswers : ReauthResponse(c, ans)
    \/ \E c \in Callers, ans \in Answers : RetryResponse(c, ans)
    \/ Tick

SpecTokConc == InitTokLate /\ [][NextTokConc]_vars

\* One TokenManager whose callers run one after another, in a process whose
\* environment can lose a FILEMAKER_* variable.
NextTokEnv ==
    \/ NextTok
    \/ EnvCleared

SpecTokEnv == InitTokLate /\ [][NextTokEnv]_vars

InitSync ==
    /\ now = 0
    /\ credsOk = TRUE
    /\ token = NoToken
    /\ lastUsed = NoTime
    /\ issued = 0
    /\ issuedAt = NoTime
    /\ started = 0
    /\ call = [c \in Callers |-> IdleCall]
    /\ lastGet = [tok |-> NoToken, at |-> NoTime, clean |-> FALSE]
    /\ rejected = {}
    /\ family \in Families
    /\ remoteIds \in {1..n : n \in 0..MaxId}
    /\ remoteMod = [i \in Ids |-> 0]
    /\ layoutOk \in BOOLEAN
    /\ local \in {InitialLocal(family, S) : S \in {{}} \cup {{i} : i \in Ids}}
    /\ run = IdleRun
    /\ runs = 0
    /\ other = IdleRun
    /\ InitLibIdle

\* One orchestrator whose runs follow one another.
NextSync ==
    \/ \E p, d \in BOOLEAN : SyncStart(p, d)
    \/ \E ok \in BOOLEAN : LayoutsResponse(ok)
    \/ \E ok, forwarded \in BOOLEAN : CountResponse(ok, forwarded)
    \/ \E ok \in BOOLEAN : PageResponse(ok)
    \/ \E ok \in BOOLEAN : DeleteMany(ok)
    \/ \E ok \in BOOLEAN, n \in 0..(BATCH_SIZE - 1) : InsertBatch(ok, n)
    \/ \E ok \in BOOLEAN : BulkWrite(ok)
    \/ \E ok \in BOOLEAN : SaveAll(ok)
    \/ \E i \in Ids : RemoteEdit(i)
    \/ TickSync

SpecSync == InitSync /\ [][NextSync]_vars

\* Every awaited call of a run (layouts, find, deleteMany, insertMany,
\* bulkWrite, save) settles: it returns or it throws.
AwaitSettles ==
    \/ \E ok \in BOOLEAN : LayoutsResponse(ok)
    \/ \E ok, forwarded \in BOOLEAN : CountResponse(ok, forwarded)
    \/ \E ok \in BOOLEAN : PageResponse(ok)
    \/ \E ok \in BOOLEAN : DeleteMany(ok)
    \/ \E ok \in BOOLEAN, n \in 0..(BATCH_SIZE - 1) : InsertBatch(ok, n)
    \/ \E ok \in BOOLEAN : BulkWrite(ok)
    \/ \E ok \in BOOLEAN : SaveAll(ok)

SpecSyncFair == InitSync /\ [][NextSync]_vars /\ WF_vars(AwaitSettles)

----------------------------------------------------------------------------
(* Properties of the TokenManager, checked under SpecTok *)

\* The cache of a frame's getValidToken() call held no usable token.
StaleAtStart(f) ==
    \/ f.cachedAtStart = NoToken
    \/ f.luAtStart = NoTime
    \/ f.startAt - f.luAtStart >= tokenValidityMinutes

C2_TokenExpiry ==
    \A c \in Callers :
        LET f == call[c] IN
        /\ (f.path # "none" /\ StaleAtStart(f))
           => /\ f.path # "reuse"
              /\ f.gvPosts = (IF f.gvCreds THEN 1 ELSE 0)
              /\ (f.path = "fresh"
                  => /\ f.gvPosts = 1
                     /\ f.got # NoToken
                     /\ f.got = f.gvIssued
                     /\ f.got # f.cachedAtStart)
        /\ f.handedAge < tokenValidityMinutes

\* A call made exactly one validity window after the last use fetched a new
\* token in place of the cached one.
C2_Witness ==
    \E c \in Callers :
        LET f == call[c] IN
        /\ f.path = "fresh"
        /\ f.cachedAtStart # NoToken
        /\ f.startAt - f.luAtStart = tokenValidityMinutes
        /\ f.got # f.cachedAtStart

\* C3: once requestFn has answered 401, the cached token has been set to
\* null, the handler has authenticated once (one POST /sessions, none only
\* when the credentials are missing), requestFn is invoked once more with the
\* token of that post and never a third time, and the call ends with the
\* answer of that second invocation: its result, or its error, a second 401
\* included.
C3_UnauthorizedRetry ==
    \A c \in Callers :
        LET f == call[c] IN
        f.unauth >= 1
        => /\ f.nulled
           /\ f.rePosts = (IF f.authCreds THEN 1 ELSE 0)
           /\ (~f.authCreds => f.pc = "failed" /\ f.err = "config" /\ f.calls = 1)
           /\ f.calls <= 2
           /\ f.unauth <= 2
           /\ (f.pc = "reauth" => token = NoToken /\ f.calls = 1)
           /\ (f.reTok # NoToken
               => /\ f.calls = 2
                  /\ f.lastCallTok = f.reTok
                  /\ f.reTok # f.got
                  /\ f.pc \in {"retry", "done", "failed"})
           /\ (f.pc = "done"
               => f.calls = 2 /\ f.lastAnswer = "ok" /\ f.result = "ok")
           /\ (f.pc = "failed" /\ f.reTok # NoToken
               => f.lastAnswer # "ok" /\ f.result = "error")
           /\ (f.unauth = 2 => f.pc = "failed" /\ f.calls = 2)

\* A call whose first invocation got a 401 returned the result of its retry.
C3_Witness ==
    \E c \in Callers :
        LET f == call[c] IN
        /\ f.unauth = 1
        /\ f.pc = "done"
        /\ f.calls = 2
        /\ f.lastCallTok = f.reTok
        /\ f.result = "ok"

\* C4: every getValidToken() call that returns leaves lastUsed at the time of
\* its return, and a call made less than the validity window after the last
\* use reuses the cached token without a POST, however old the token is.
C4_SlidingWindow ==
    \A c \in Callers :
        LET f == call[c] IN
        /\ (f.path \in {"reuse", "fresh"}) => (f.luAfter = f.gotAt /\ f.gotAt # NoTime)
        /\ (f.path # "none" /\ ~StaleAtStart(f))
           => (f.path = "reuse" /\ f.got = f.cachedAtStart /\ f.gvPosts = 0)

\* A token was reused a full validity window or more after it was issued.
C4_Witness ==
    \E c \in Callers :
        LET f == call[c] IN
        /\ f.path = "reuse"
        /\ f.issAtStart # NoTime
        /\ f.startAt - f.issAtStart >= tokenValidityMinutes
        /\ f.luAfter = f.startAt

----------------------------------------------------------------------------
(* Properties of the sync orchestrators, checked under SpecSync *)

\* The least k with k * c >= n.
CeilDiv(n, c) == CHOOSE k \in 0..n : k * c >= n /\ (k = 0 \/ (k - 1) * c < n)

EnvKeys(env) == {env[k].recordId : k \in 1..Len(env)}

WithKey(coll, key) == {j \in 1..Len(coll) : KeyOf(family, coll[j]) = key}

\* The stored document carries the values of the envelope.
Carries(d, e) ==
    /\ KeyOf(family, d) = e.recordId
    /\ d.name = e.fieldData.name
    /\ (family = "controller" => d.fileMakerModId = e.modId /\ d.mongoEdited = FALSE)

\* The collection as a multiset.
AsBag(coll) ==
    [d \in {coll[k] : k \in 1..Len(coll)} |->
        Cardinality({k \in 1..Len(coll) : coll[k] = d})]

\* The orderings of a sequence.
Perms(sq) ==
    LET n == Len(sq) IN
    {[k \in 1..n |-> sq[f[k]]] :
        f \in {g \in [1..n -> 1..n] : \A a, b \in 1..n : g[a] = g[b] => a = b}}

\* The purge = false load of the family, applied to a collection.
UpsertLoad(coll, docs) ==
    IF family = "controller" THEN bulkWrite(coll, docs) ELSE saveAll(coll, docs)

\* A purge = false run has gone through its load without a storage failure.
UpsertRunOver ==
    /\ run.phase \in {"done", "errored"}
    /\ run.fetchedAll
    /\ ~run.purge
    /\ ~run.fault
    /\ run.total > 0

\* C5: with a probe count N > 0 and page size C, a run issues ceil(N / C)
\* pagination finds, never more, and once the loop has ended the fetched
\* envelopes are the remote found set, each record once and none missing.
C5_PaginationCoverage ==
    LET C == ChunkOf(family)
        N == run.total
    IN /\ run.finds <= CeilDiv(N, C)
       /\ (run.fetchedAll /\ N > 0)
          => /\ run.finds = CeilDiv(N, C)
             /\ Len(run.env) = N
             /\ Cardinality(EnvKeys(run.env)) = N
             /\ EnvKeys(run.env) = EnvKeys(run.found)
             /\ run.env = run.found

\* A found set of 2C - 1 records was fetched in two pages.
C5_Witness ==
    /\ run.fetchedAll
    /\ run.total = 2 * ChunkOf(family) - 1
    /\ run.total > ChunkOf(family)
    /\ run.finds = 2
    /\ run.env = run.found

\* C6: when the probe reports foundCount = 0, the run issues no pagination
\* find, answers the trigger with a total of 0 and issues no local write, so
\* that the local collection is as it was, for either value of purge and for
\* every orchestrator.
C6_ZeroCountShortCircuit ==
    (run.counted /\ run.total = 0)
    => /\ run.finds = 0
       /\ run.resp = "success"
       /\ run.respTotal = 0
       /\ run.writes = 0
       /\ local = run.localBefore

\* C7: when a purge run with a probe count above 0 has returned without
\* error, the local collection holds the fetched records and nothing else:
\* one document per fetched envelope, carrying its values, and no document
\* of the collection as it was before the run.
C7_PurgeSemantics ==
    (run.phase = "done" /\ run.purge /\ run.total > 0)
    => /\ Len(local) = Len(run.env)
       /\ \A k \in 1..Len(local) : Carries(local[k], run.env[k])
       /\ \A e \in EnvKeys(run.env) : Cardinality(WithKey(local, e)) = 1
       /\ \A j \in 1..Len(local) : KeyOf(family, local[j]) \in EnvKeys(run.env)
       /\ (family = "controller" => local = run.all)

\* A purge run has returned over a collection that held a record the remote
\* does not have.
C7_Witness ==
    /\ run.phase = "done"
    /\ run.purge
    /\ run.total > 0
    /\ \E j \in 1..Len(run.localBefore) :
          KeyOf(family, run.localBefore[j]) \notin EnvKeys(run.env)
    /\ Len(local) = run.total

\* C8: a purge = false run that follows a purge = false run and has fetched
\* the same envelopes leaves every stored document as it was, bookkeeping
\* fields included, and the number of documents unchanged.
C8_UpsertIdempotent ==
    (/\ UpsertRunOver
     /\ run.prevEnded = "done"
     /\ ~run.prevPurge
     /\ run.env = run.prevEnv)
    => local = run.localBefore

\* C9: after the load of a purge = false run every fetched envelope has its
\* document: a new one when no document had its key, else the one that had
\* it, carrying the fetched values, with no further document of that key;
\* and the collection is the same for every order of the fetched records.
C9_UpsertByKey ==
    UpsertRunOver
    => /\ \A k \in 1..Len(run.env) :
             LET e == run.env[k] IN
             /\ Cardinality(WithKey(local, e.recordId))
                  = Max(1, Cardinality(WithKey(run.localBefore, e.recordId)))
             /\ \A j \in WithKey(local, e.recordId) : Carries(local[j], e)
       /\ \A q \in Perms(run.all) :
             AsBag(UpsertLoad(run.localBefore, q)) = AsBag(local)

\* C10: a purge = false run deletes nothing, and a document whose key is not
\* among the fetched records stays as it was.
C10_UpsertFrame ==
    (run.phase # "idle" /\ ~run.purge)
    => /\ Len(local) >= Len(run.localBefore)
       /\ \A j \in 1..Len(run.localBefore) :
             KeyOf(family, run.localBefore[j]) \notin EnvKeys(run.env)
             => local[j] = run.localBefore[j]

\* A purge = false run has written its records next to a document whose key
\* it did not fetch.
C10_Witness ==
    /\ run.phase = "done"
    /\ ~run.purge
    /\ run.total > 0
    /\ local # run.localBefore
    /\ \E j \in 1..Len(run.localBefore) :
          /\ KeyOf(family, run.localBefore[j]) \notin EnvKeys(run.env)
          /\ local[j] = run.localBefore[j]

\* C11: in every state of a sequence of runs that follow one another (purge
\* or upsert, in any order, remote edits between them), no two documents of
\* the local collection have the same key.
C11_UniqueKey ==
    \A j, k \in 1..Len(local) :
        KeyOf(family, local[j]) = KeyOf(family, local[k]) => j = k

\* Two runs of different kinds have returned, the second over a collection
\* that already held a record it fetched.
C11_Witness ==
    /\ run.phase = "done"
    /\ run.prevEnded = "done"
    /\ run.purge # run.prevPurge
    /\ Len(local) >= 2
    /\ \E j \in 1..Len(run.localBefore) :
          KeyOf(family, run.localBefore[j]) \in EnvKeys(run.env)

HasOmit(q) == \E k \in 1..Len(q) : q[k] = OmitClause

HasDate(q) == \E k \in 1..Len(q) : q[k] = DateClause

\* C12: every find of a run, the probe and every pagination page, carries a
\* query with the exclusion clause for records last modified by
\* 'node-server', with or without a date cutoff; the date clause is there
\* exactly when a date was supplied.
C12_OmitClauseInEveryFind ==
    /\ (run.probes + run.finds > 0) => run.queries # {}
    /\ \A q \in run.queries :
          /\ HasOmit(q)
          /\ HasDate(q) <=> run.date

\* The fetch/transform/load pipeline of the run is in flight.
PipelineInFlight == run.phase \in {"page", "purge", "insert", "bulk", "save"}

\* C13: the layout list is fetched before any find of a run, and when the
\* target layout is not in the list the run fails with no find issued, probe
\* or pagination, and no local write.
C13_LayoutCheckedFirst ==
    /\ (run.probes + run.finds > 0) => run.layoutsCalls > 0
    /\ (run.phase # "idle" /\ ~layoutOk)
       => /\ run.probes = 0
          /\ run.finds = 0
          /\ run.writes = 0
          /\ RunEnded => run.phase = "errored"

\* C14: once the probe count is known the trigger has its response: while
\* the pagination finds and the local writes of the run are in flight the
\* success response with the count has been sent.
C14_RespondsBeforePipeline ==
    PipelineInFlight
    => /\ run.resp = "success"
       /\ run.respTotal = run.total

\* C15: a run that fails after the probe count is known (a pagination find,
\* a transform or a local write fails) has answered its trigger with the
\* success response carrying the count, never with an error.
C15_BackgroundFailureNotSurfaced ==
    (run.phase = "errored" /\ run.counted)
    => /\ run.resp = "success"
       /\ run.respTotal = run.total

\* The run's trigger has been answered as the claim C16 has it: at most one
\* response; an error response only when the layout check or the probe
\* failed; a success response only with the discovered count; and a run
\* whose layout check or probe failed has its error response.
C16_ResponseAsClaimed ==
    /\ run.responses <= 1
    /\ (run.resp = "error") => ~run.counted
    /\ (run.resp = "success") => (run.counted /\ run.respTotal = run.total)
    /\ (run.phase = "errored" /\ ~run.counted) => run.resp = "error"

\* C16: every trigger request eventually receives exactly one response, a
\* 500 error when the layout check or the probe fails and the success
\* response with the discovered count otherwise; no failure of the
\* synchronous phase leaves the request without a response.
C16_ExactlyOneResponse ==
    /\ [] C16_ResponseAsClaimed
    /\ \A n \in 1..MaxRuns :
          (runs = n /\ run.phase # "idle") ~> (runs = n /\ run.responses = 1)

\* C18: a wrapped operation whose first failure is not a 401 (a transport
\* error, or a response without the nested response payload) has been
\* invoked exactly once; no re-authentication was made, the cached token is
\* the one the operation was given, and the call has thrown to its caller.
C18_OtherFailureSurfaced ==
    LET f == call[SeqCaller] IN
    (f.lastAnswer \in {"transport", "invalid"} /\ f.unauth = 0)
    => /\ f.pc = "failed"
       /\ f.result = "error"
       /\ f.err = "request"
       /\ f.calls = 1
       /\ f.retries = maxRetries
       /\ f.rePosts = 0
       /\ token = f.got
       /\ token # NoToken

\* An operation given a reused token has failed on a response without the
\* nested payload.
C18_Witness ==
    LET f == call[SeqCaller] IN
    /\ f.pc = "failed"
    /\ f.lastAnswer = "invalid"
    /\ f.unauth = 0
    /\ f.path = "reuse"
    /\ f.calls = 1

\* C19: an authentication entered with a credential missing throws the
\* configuration error: nothing is posted to /sessions, there is no second
\* attempt, the cached token and the last-used timestamp are as they were
\* when it was entered, requestFn is not invoked for it, and the call fails.
C19_MissingCredentials ==
    LET f == call[SeqCaller] IN
    /\ (f.pc # "idle" /\ ~f.authCreds)
       => /\ f.err = "config"
          /\ f.pc = "failed"
          /\ f.result = "error"
          /\ f.authPosts = 0
          /\ f.authRetries = maxRetries
          /\ token = f.authTok
          /\ lastUsed = f.authLu
          /\ f.calls = (IF f.unauth > 0 THEN 1 ELSE 0)
    /\ (f.err = "config") => ~f.authCreds

\* A call that found its cached token expired and a credential missing has
\* failed, the expired token still cached.
C19_Witness ==
    LET f == call[SeqCaller] IN
    /\ f.err = "config"
    /\ f.unauth = 0
    /\ f.authTok # NoToken
    /\ token = f.authTok
    /\ lastUsed = f.authLu
    /\ f.authPosts = 0

\* C20: an authentication whose POST /sessions fails in transport or is
\* answered without a token has made that one attempt and no other, with no
\* backoff wait; the call fails with the authentication error, whose message
\* ends with the message of the cause; the cache holds no new token (it is as
\* it was when the authentication was entered) and requestFn has not been
\* invoked for the token that was awaited.
C20_AuthenticationFailure ==
    LET f == call[SeqCaller] IN
    /\ f.pc # "backoff"
    /\ (f.authAnswer # "none")
       => /\ f.authAnswer \in {"transport", "notoken"}
          /\ f.err = "auth"
          /\ f.pc = "failed"
          /\ f.result = "error"
          /\ f.authPosts = 1
          /\ \E k \in 1..Len(f.msg) : f.msg[k] = "Failed to authenticate"
          /\ Len(f.msg) > 0 /\ f.msg[Len(f.msg)] = f.authAnswer
          /\ token = f.authTok
          /\ lastUsed = f.authLu
          /\ (f.unauth > 0 => token = NoToken)
          /\ f.calls = (IF f.unauth > 0 THEN 1 ELSE 0)
    /\ (f.err = "auth") => f.authAnswer # "none"

\* A call that found its cached token expired has failed on a /sessions
\* answer without a token, with requestFn never invoked.
C20_Witness ==
    LET f == call[SeqCaller] IN
    /\ f.err = "auth"
    /\ f.authAnswer = "notoken"
    /\ f.unauth = 0
    /\ f.calls = 0
    /\ f.authTok # NoToken
    /\ token = f.authTok

\* C17: when two calls on one TokenManager have both found the cached token
\* missing or expired and both have authenticated, neither of them is using
\* a token other than the one left in the cache.
C17_NoStaleLoser ==
    \A c, d \in Callers :
        (/\ c # d
         /\ call[c].raced /\ call[d].raced
         /\ call[c].path = "fresh" /\ call[d].path = "fresh"
         /\ call[c].pc = "request"
         /\ token \in {call[c].got, call[d].got})
        => call[c].held = token

----------------------------------------------------------------------------
(* Log entries that mention the session token.  A token is a string, here  *)
(* a sequence of characters; a log entry is the sequence of its parts and  *)
(* characters.                                                             *)
TokChars  == {"a", "b"}
MaxTokLen == 4      \* session tokens have 1..MaxTokLen characters
prefixLen == 2      \* characters kept by substring(0, 10), scaled
suffixLen == 1      \* characters kept by substring(length - 5), scaled
MaxLog    == 2      \* log entries per behaviour

Tokens == UNION {[1..n -> TokChars] : n \in 1..MaxTokLen}

\* String.prototype.substring(from, to): both indexes are clamped to
\* 0..length; the characters from + 1 .. to (1-based) are returned.
substring(str, from, to) ==
    LET f == Max(0, Min(from, Len(str)))
        t == Max(0, Min(to, Len(str)))
    IN SubSeq(str, Min(f, t) + 1, Max(f, t))

\* token.substring(0, 10) + '...' + token.substring(token.length - 5)
maskedToken(tok) ==
    substring(tok, 0, prefixLen) \o <<".", ".", ".">>
        \o substring(tok, Len(tok) - suffixLen, Len(tok))

\* logTokenStatus(action, token): `<time> <action> token <masked> which expires (<time>)`
logTokenStatus(action, tok) ==
    <<action, "token">> \o maskedToken(tok) \o <<"which expires">>

\* The entry FileMakerService.find logs before it posts: the url, the request
\* body and the headers, the Authorization header among them.
findRequestLog(tok) ==
    <<"make request to filemaker", "Authorization", "Bearer">> \o tok

\* authenticateAndGetToken() has been answered with the token.
LogGotNew ==
    /\ arg \in Tokens
    /\ Len(out) < MaxLog
    /\ out' = Append(out, logTokenStatus("Got new", arg))
    /\ UNCHANGED <<now, tokVars, syncVars, arg>>

\* getValidToken() reuses the cached token.
LogReused ==
    /\ arg \in Tokens
    /\ Len(out) < MaxLog
    /\ out' = Append(out, logTokenStatus("Reused", arg))
    /\ UNCHANGED <<now, tokVars, syncVars, arg>>

\* find() runs its request function with the token.
LogFindRequest ==
    /\ arg \in Tokens
    /\ Len(out) < MaxLog
    /\ out' = Append(out, findRequestLog(arg))
    /\ UNCHANGED <<now, tokVars, syncVars, arg>>

\* Nothing but the library function is running.
InitRestIdle ==
    /\ now = 0
    /\ credsOk = TRUE
    /\ token = NoToken
    /\ lastUsed = NoTime
    /\ issued = 0
    /\ issuedAt = NoTime
    /\ started = 0
    /\ call = [c \in Callers |-> IdleCall]
    /\ lastGet = [tok |-> NoToken, at |-> NoTime, clean |-> FALSE]
    /\ rejected = {}
    /\ InitSyncIdle

InitLog ==
    /\ InitRestIdle
    /\ arg \in Tokens
    /\ out = <<>>

NextLog ==
    \/ LogGotNew
    \/ LogReused
    \/ LogFindRequest

SpecLog == InitLog /\ [][NextLog]_vars

\* The string t occurs in the string s.
Contains(s, t) ==
    \E k \in 0..(Len(s) - Len(t)) : SubSeq(s, k + 1, k + Len(t)) = t

\* C21: no log entry written while a token is issued, reused or used in a
\* request contains the full token, whatever the length of the token.
C21_NoFullTokenLogged ==
    \A k \in 1..Len(out) : ~Contains(out[k], arg)

----------------------------------------------------------------------------
(* The request body of find.  An object is a function from its keys to its *)
(* values; a key is the sequence of its dot-separated segments ("limit.p"  *)
(* is <<"limit", "p">>); a value carries its typeof, and a string is the   *)
(* sequence of its characters or segments.                                 *)
MaxNum == 12        \* numeric parameter values are 0 and MaxNum

Num(n)   == [typeof |-> "number", num |-> n, str |-> <<>>, items |-> <<>>]
Str(str) == [typeof |-> "string", num |-> 0, str |-> str, items |-> <<>>]
Arr(seq) == [typeof |-> "object", num |-> 0, str |-> <<>>, items |-> seq]

EmptyObject == [k \in {} |-> Num(0)]

Digit(d) == <<"0", "1", "2", "3", "4", "5", "6", "7", "8", "9">>[d + 1]

\* A mutation of toString: the number is cut to its last digit.
toString_lastDigit(n) == <<Digit(n % 10)>>

\* Number.prototype.toString() of a non-negative integer: its decimal digits.
RECURSIVE toString(_)
toString(n) ==
    IF n < 10 THEN <<Digit(n)>>
    ELSE toString(n \div 10) \o <<Digit(n % 10)>>

\* Object.assign({}, ...objs): a later object overrides an earlier one.
RECURSIVE assign(_)
assign(objs) ==
    IF objs = <<>> THEN EmptyObject
    ELSE objs[Len(objs)] @@ assign(SubSeq(objs, 1, Len(objs) - 1))

\* _.mapKeys of convertPortals followed by _.omitBy(key === 'remove'):
\* limit and offset are suffixed with the portal's name, name is removed.
portalKeys(portal) ==
    LET name == IF <<"name">> \in DOMAIN portal THEN portal[<<"name">>].str
                ELSE <<"undefined">>
        ren(k) == IF k \in {<<"limit">>, <<"offset">>} THEN k \o name ELSE k
        kept == DOMAIN portal \ {<<"name">>, <<"remove">>}
    IN [k \in {ren(j) : j \in kept} |-> portal[CHOOSE j \in kept : ren(j) = k]]

\* convertPortals(data)
convertPortals(data) ==
    LET isArray == <<"portals">> \in DOMAIN data
        portals == IF isArray THEN data[<<"portals">>].items ELSE <<>>
        names   == [k \in 1..Len(portals) |-> portals[k][<<"name">>]]
    IN assign(<<[k \in {<<"portals">>} |-> Arr(names)]>>
              \o [k \in 1..Len(portals) |-> portalKeys(portals[k])])

\* convertScripts(data): the last named script gives script and script.param.
RECURSIVE reduceScripts(_, _)
reduceScripts(acc, scripts) ==
    IF scripts = <<>> THEN acc
    ELSE LET script == Head(scripts)
             named  == [k \in {<<"script">>} |-> script[<<"name">>]]
             param  == IF <<"param">> \in DOMAIN script
                       THEN [k \in {<<"script", "param">>} |->
                               IF script[<<"param">>].typeof = "string"
                               THEN script[<<"param">>]
                               ELSE Str(toString(script[<<"param">>].num))]
                       ELSE EmptyObject
         IN reduceScripts(IF <<"name">> \in DOMAIN script
                          THEN param @@ named @@ acc
                          ELSE acc,
                          Tail(scripts))

convertScripts(data) ==
    IF <<"scripts">> \notin DOMAIN data THEN EmptyObject
    ELSE reduceScripts(EmptyObject, data[<<"scripts">>].items)

\* convertParameters(data)
convertParameters(data) ==
    assign(<<convertPortals(data), convertScripts(data), data>>)

\* key.startsWith(prefix + '.')
startsWith(key, prefix) == Len(key) > 1 /\ key[1] = prefix

\* The allow-list find passes to sanitizeParameters.
safeParameters ==
    {<<"limit">>, <<"sort">>, <<"offset">>, <<"portal">>, <<"script">>,
     <<"script", "param">>, <<"script", "prerequest">>,
     <<"script", "prerequest", "param">>, <<"script", "presort">>,
     <<"script", "presort", "param">>, <<"layout", "response">>,
     <<"offset", "*">>, <<"limit", "*">>, <<"request">>}

\* The predicate of _.pickBy in sanitizeParameters.
picked(key, safe) ==
    \/ key \in safe
    \/ <<"_offset", "*">> \in safe /\ startsWith(key, "_offset")
    \/ <<"_limit", "*">> \in safe /\ startsWith(key, "_limit")
    \/ <<"offset", "*">> \in safe /\ startsWith(key, "offset")
    \/ <<"limit", "*">> \in safe /\ startsWith(key, "limit")

\* A mutation of sanitizeParameters: nothing is filtered out.
sanitizeParameters_all(parameters, safe) ==
    LET converted == convertParameters(parameters)
    IN [k \in DOMAIN converted |->
          IF converted[k].typeof = "number"
          THEN Str(toString(converted[k].num)) ELSE converted[k]]

\* sanitizeParameters(parameters, safeParameters)
sanitizeParameters(parameters, safe) ==
    LET converted == convertParameters(parameters)
        filtered  == {k \in DOMAIN converted : picked(k, safe)}
    IN [k \in filtered |->
          IF converted[k].typeof = "number"
          THEN Str(toString(converted[k].num)) ELSE converted[k]]

\* toArray(query)
toArray(query) == IF query.typeof = "object" /\ query.items # <<>> THEN query.items
                  ELSE <<EmptyObject>>

\* toStrings(obj) of an array of clauses: String(value) of every value.
toStrings(clauses) ==
    [k \in 1..Len(clauses) |->
       [f \in DOMAIN clauses[k] |->
          IF clauses[k][f].typeof = "number"
          THEN Str(toString(clauses[k][f].num)) ELSE clauses[k][f]]]

\* requestData of find: { query: toStrings(toArray(query)), ...sanitized }
requestData(query, parameters) ==
    sanitizeParameters(parameters, safeParameters)
        @@ [k \in {<<"query">>} |-> Arr(toStrings(toArray(query)))]

\* The parameter objects handed to find.
PlainKeys == {<<"limit">>, <<"merge">>, <<"offset", "p">>, <<"offsetx">>}
Scalars   == {Num(0), Num(MaxNum), Str(<<"x">>)}
Plain     == UNION {[K -> Scalars] : K \in SUBSET PlainKeys}

PortalOf(K) == [k \in {<<"name">>} \cup K |->
                  IF k = <<"name">> THEN Str(<<"p">>) ELSE Num(MaxNum)]
PortalLists ==
    {<<>>} \cup {<<PortalOf(K)>> : K \in SUBSET {<<"limit">>, <<"foo">>}}
ScriptLists ==
    {<<>>,
     <<[k \in {<<"name">>} |-> Str(<<"s">>)]>>,
     <<[k \in {<<"name">>, <<"param">>} |->
          IF k = <<"name">> THEN Str(<<"s">>) ELSE Num(MaxNum)]>>}

WithLists(obj, portals, scripts) ==
    (IF portals = <<>> THEN EmptyObject
     ELSE [k \in {<<"portals">>} |-> Arr(portals)])
    @@ (IF scripts = <<>> THEN EmptyObject
        ELSE [k \in {<<"scripts">>} |-> Arr(scripts)])
    @@ obj

Queries == {Arr(<<[f \in {"ModifiedBy"} |-> Str(<<"node-server">>)]>>),
            Arr(<<[f \in {"Grade"} |-> Num(MaxNum)]>>)}

\* find(layout, query, parameters) builds its request body.
BuildRequest ==
    /\ arg # <<>>
    /\ out = <<>>
    /\ out' = <<requestData(arg.query, arg.parameters)>>
    /\ UNCHANGED <<now, tokVars, syncVars, arg>>

InitParams ==
    /\ InitRestIdle
    /\ \E obj \in Plain, portals \in PortalLists, scripts \in ScriptLists,
          query \in Queries :
          arg = [query |-> query,
                 parameters |-> WithLists(obj, portals, scripts)]
    /\ out = <<>>

NextParams == BuildRequest

SpecParams == InitParams /\ [][NextParams]_vars

\* The number a string of decimal digits denotes.
DigitValue(ch) == CHOOSE d \in 0..9 : Digit(d) = ch

RECURSIVE DecimalValue(_)
DecimalValue(str) ==
    IF str = <<>> THEN 0
    ELSE 10 * DecimalValue(SubSeq(str, 1, Len(str) - 1)) + DigitValue(str[Len(str)])

\* The keys of the allow-list, the prefixed keys included.
OnAllowList(key) ==
    \/ key \in {<<"limit">>, <<"sort">>, <<"offset">>, <<"portal">>,
                <<"layout", "response">>, <<"request">>}
    \/ key[1] = "script"
    \/ Len(key) > 1 /\ key[1] \in {"offset", "limit"}

\* C22: the request body of find holds 'query' and, of the parameters, only
\* keys of the allow-list; every other key is dropped; every numeric value
\* forwarded is sent as its decimal string.
C22_RequestBodySanitized ==
    out # <<>> =>
        LET body == out[1]
            conv == convertParameters(arg.parameters)
        IN /\ <<"query">> \in DOMAIN body
           /\ \A k \in DOMAIN body \ {<<"query">>} : OnAllowList(k)
           /\ \A k \in DOMAIN arg.parameters :
                 ~OnAllowList(k) => k \notin DOMAIN body
           /\ \A k \in DOMAIN body \ {<<"query">>} :
                 /\ body[k].typeof # "number"
                 /\ k \in DOMAIN conv
                 /\ conv[k].typeof = "number" =>
                       /\ body[k].typeof = "string"
                       /\ DecimalValue(body[k].str) = conv[k].num
                 /\ conv[k].typeof # "number" => body[k] = conv[k]

C22_Witness ==
    /\ out # <<>>
    /\ arg # <<>>
    /\ <<"merge">> \in DOMAIN arg.parameters
    /\ <<"limit">> \in DOMAIN arg.parameters
    /\ arg.parameters[<<"limit">>] = Num(MaxNum)
    /\ out[1][<<"limit">>] = Str(toString(MaxNum))
    /\ <<"merge">> \notin DOMAIN out[1]

----------------------------------------------------------------------------
(* The transformer applied to one envelope, any number of times.           *)
MaxApply == 2       \* applications of the transformer per behaviour

FieldNames == {"name", "grade", "fileMakerRecordId"}
FieldData  == UNION {[F -> 0..1] : F \in SUBSET FieldNames}
Envelopes  == [recordId : Ids, modId : 0..1, fieldData : FieldData]

\* The names processFileMakerRecord writes after the spread.
Attached == {"fileMakerRecordId", "fileMakerModId", "mongoCreatedAt",
             "mongoModifiedAt", "mongoEdited"}

\* records.map(processFileMakerRecord) reaches the envelope: the record is
\* built, and the envelope is what the call leaves of its argument.
Transform ==
    /\ arg \in Envelopes
    /\ Len(out) < MaxApply
    /\ out' = Append(out, [record   |-> processFileMakerRecord(arg, now),
                           envelope |-> arg])
    /\ UNCHANGED <<now, tokVars, syncVars, arg>>

InitTransform ==
    /\ InitRestIdle
    /\ arg \in Envelopes
    /\ out = <<>>

NextTransform ==
    \/ Transform
    \/ Tick

SpecTransform == InitTransform /\ [][NextTransform]_vars

Timestamps == {"mongoCreatedAt", "mongoModifiedAt"}

\* The record carries the attached values, and the envelope is as it was.
AttachedAsClaimed(e) ==
    /\ e.record.fileMakerRecordId = arg.recordId
    /\ e.record.fileMakerModId = arg.modId
    /\ e.record.mongoEdited = FALSE
    /\ e.envelope = arg

\* Two records of one envelope agree on everything but the timestamps.
AgreeButTimestamps(r1, r2) ==
    /\ DOMAIN r1 = DOMAIN r2
    /\ \A f \in DOMAIN r1 \ Timestamps : r1[f] = r2[f]

\* C23: the record has fileMakerRecordId = recordId, fileMakerModId = modId
\* and edited = false, and carries every field of fieldData unchanged; the
\* envelope is not modified; two applications to one envelope agree on
\* everything except the timestamps.
C23_TransformerShape ==
    /\ \A k \in 1..Len(out) :
          /\ AttachedAsClaimed(out[k])
          /\ \A f \in DOMAIN arg.fieldData :
                /\ f \in DOMAIN out[k].record
                /\ out[k].record[f] = arg.fieldData[f]
    /\ \A j, k \in 1..Len(out) : AgreeButTimestamps(out[j].record, out[k].record)

\* C23, amended: as above, but a field of fieldData is carried unchanged only
\* if its name is not one of the attached names; a field of fieldData named
\* like an attached property is replaced by the attached value.
C23_TransformerShapeAmended ==
    /\ \A k \in 1..Len(out) :
          /\ AttachedAsClaimed(out[k])
          /\ DOMAIN out[k].record = DOMAIN arg.fieldData \cup Attached
          /\ \A f \in DOMAIN arg.fieldData \ Attached :
                out[k].record[f] = arg.fieldData[f]
    /\ \A j, k \in 1..Len(out) : AgreeButTimestamps(out[j].record, out[k].record)

C23_Witness ==
    /\ Len(out) = 2
    /\ arg \in Envelopes
    /\ DOMAIN arg.fieldData = FieldNames
    /\ arg.fieldData.fileMakerRecordId # arg.recordId
    /\ out[1].record.mongoCreatedAt # out[2].record.mongoCreatedAt
    /\ out[2].record.name = arg.fieldData.name

----------------------------------------------------------------------------
(* Properties of the finds of a run, checked under SpecSync *)

\* C24: the k-th pagination find of a run has offset (k-1)*chunkSize + 1 and
\* limit chunkSize; the offsets increase strictly; a page is requested only
\* after the page before it has been answered.
C24_PaginationOffsets ==
    /\ Len(run.pages) = run.finds
    /\ \A k \in 1..Len(run.pages) :
          /\ run.pages[k].offset = (k - 1) * ChunkOf(family) + 1
          /\ run.pages[k].limit = ChunkOf(family)
    /\ \A j, k \in 1..Len(run.pages) :
          j < k => run.pages[j].offset < run.pages[k].offset
    /\ run.finds <= run.pageAnswers + 1
    /\ run.phase = "page" => run.finds = run.pageAnswers + 1

C24_Witness ==
    /\ run.finds = 2
    /\ run.pageAnswers = 2
    /\ run.pages[2].offset = chunkSize + 1
    /\ run.fetchedAll

\* C25: a run issues exactly one probe find, with limit 1 and the query of
\* its pagination finds; the probe is answered before the first pagination
\* find is issued; the number of pagination finds is the number of pages of
\* the probe's foundCount.  (A run issues no probe only while its layout
\* check is pending or when that check has failed.)
C25_OneProbeFirst ==
    /\ run.probes <= 1
    /\ run.probes = 0 =>
          \/ run.phase \in {"idle", "layouts"}
          \/ run.phase = "errored" /\ ~run.counted /\ run.layoutsCalls = 1
    /\ run.probes = 1 =>
          /\ run.probeLimit = 1
          /\ run.queries = {run.query}
    /\ run.finds > 0 => run.counted /\ run.probes = 1
    /\ run.counted => run.total = Len(run.found)
    /\ run.finds <= CeilDiv(run.total, ChunkOf(family))
    /\ run.fetchedAll => run.finds = CeilDiv(run.total, ChunkOf(family))

C25_Witness ==
    /\ run.probes = 1
    /\ run.counted
    /\ run.total > ChunkOf(family)
    /\ run.finds >= 2
    /\ run.fetchedAll
    /\ run.date

\* A pagination find of the run has failed.
PageFailed ==
    /\ run.phase = "errored"
    /\ run.finds > 0
    /\ ~run.fetchedAll

\* C26: no local write is issued before the last page of the run has been
\* fetched; if a pagination find fails, the local collection is as it was
\* when the run started, with purge = true as well.
C26_NoWriteBeforeLastPage ==
    /\ run.writes > 0 => run.fetchedAll
    /\ run.phase # "idle" /\ ~run.fetchedAll => local = run.localBefore
    /\ run.fetchedAll => run.pageAnswers = run.finds /\ Len(run.env) = Len(run.found)
    /\ PageFailed => run.writes = 0 /\ local = run.localBefore

C26_Witness ==
    /\ PageFailed
    /\ run.purge
    /\ run.pageAnswers = 2
    /\ Len(local) > 0

\* The insertMany of a batch of the purge load has failed.
InsertFailed ==
    /\ run.phase = "errored"
    /\ run.fault
    /\ run.purge
    /\ family = "controller"
    /\ run.writes >= 2

\* C27: when the insert of a batch of a purge load fails, no later batch of
\* the run is inserted and the run ends in error; the batches inserted
\* before the failure remain, and the purged records are not restored.
C27_BatchFailureAborts ==
    /\ run.fault => run.phase = "errored"
    /\ InsertFailed =>
          /\ run.resp = "error"
          /\ run.i = (run.writes - 2) * BATCH_SIZE
          /\ Len(local) >= run.i
          /\ Len(local) < Min(run.i + BATCH_SIZE, Len(run.all))
          /\ local = SubSeq(run.all, 1, Len(local))

C27_Witness ==
    /\ InsertFailed
    /\ run.writes = 3
    /\ Len(local) = BATCH_SIZE
    /\ Len(run.localBefore) > 0
    /\ \A k \in 1..Len(local) :
          KeyOf(family, local[k]) # KeyOf(family, run.localBefore[1])

----------------------------------------------------------------------------
(* Two runs of one entity.  A run is suspended at each of its awaits; the  *)
(* event loop then serves the other request of the entity, whose frame is  *)
(* kept in `other` while it is not the one being served.                   *)
Yield ==
    /\ run.phase # "idle" \/ other.phase # "idle"
    /\ run' = other
    /\ other' = run
    /\ UNCHANGED <<now, tokVars, libVars, family, remoteIds, remoteMod, layoutOk,
                   local, runs>>

\* The requests reach an orchestrator whose layout exists and whose
\* collection holds the document of an earlier run.
InitSyncConc ==
    /\ InitSync
    /\ layoutOk
    /\ remoteIds # {}
    /\ local = InitialLocal(family, {1})

NextSyncConc ==
    \/ \E p, d \in BOOLEAN : SyncStart(p, d)
    \/ AwaitSettles
    \/ Yield

SpecSyncConc == InitSyncConc /\ [][NextSyncConc]_vars

\* The run has deleted the collection and has inserted nothing yet.
PurgedNotLoaded(fr) ==
    /\ fr.purge
    /\ fr.phase \in {"insert", "save"}
    /\ fr.writes = 1

\* C28: runs of one entity are not mutually exclusive: while a run is
\* paginating or loading, a request for another run of the entity is
\* accepted and starts one; the writes of the two runs interleave.
C28_NoMutualExclusion ==
    (/\ other.phase \in {"page", "purge", "insert", "bulk", "save"}
     /\ run.phase = "idle"
     /\ runs < MaxRuns)
        => ENABLED (\E p, d \in BOOLEAN : SyncStart(p, d))

\* Both purges have happened before either load.
C28_Witness ==
    /\ PurgedNotLoaded(run)
    /\ PurgedNotLoaded(other)
    /\ local = <<>>
    /\ Len(run.localBefore) > 0

----------------------------------------------------------------------------
(* Progress of a run, checked under SpecSyncRunFair *)

\* The runs of one orchestrator, every awaited call of which settles; the
\* remote found set stays as it is.
NextSyncRun ==
    \/ \E p, d \in BOOLEAN : SyncStart(p, d)
    \/ AwaitSettles

SpecSyncRunFair == InitSync /\ [][NextSyncRun]_vars /\ WF_vars(AwaitSettles)

\* The position of a phase in the order layout verification, probe,
\* pagination, load, terminal state.
PhaseRank(ph) ==
    CASE ph = "idle"    -> 0
      [] ph = "layouts" -> 1
      [] ph = "count"   -> 2
      [] ph = "page"    -> 3
      [] ph \in {"purge", "insert", "bulk", "save"} -> 4
      [] ph \in {"empty", "done", "errored"} -> 5
      [] OTHER -> 4

\* C29: if every awaited call settles, every run reaches a terminal state
\* (finished, empty or errored); it issues finitely many finds, one probe and
\* at most one per page of the found set; and its phases follow the order
\* layout verification, probe, pagination, load, none being entered again
\* after a later one.
C29_RunTerminates ==
    /\ [][runs' = runs => PhaseRank(run'.phase) >= PhaseRank(run.phase)]_vars
    /\ [](run.probes + run.finds <= 1 + CeilDiv(Len(run.found), ChunkOf(family)))
    /\ \A n \in 1..MaxRuns :
          (runs = n /\ run.phase # "idle") ~> (runs = n /\ RunEnded)

C29_Witness ==
    /\ run.phase = "done"
    /\ run.layoutsCalls = 1
    /\ run.probes = 1
    /\ run.finds >= 2
    /\ run.writes >= 2

----------------------------------------------------------------------------
(* The cached token and the 401 answers, checked under SpecTokConc *)

\* Every write to the cached token stores the token a POST /sessions has
\* just returned, or null.
CacheWriteAsClaimed ==
    token' # token =>
        \/ token' = NoToken
        \/ issued' = issued + 1 /\ token' = issued'

\* No call has been handed a token that had been answered with a 401.
NoRejectedHanded == \A c \in Callers : ~call[c].handedRejected

\* The call has failed in the re-authentication of its 401 handler.
ReauthFailed(c) ==
    /\ call[c].pc = "failed"
    /\ call[c].unauth > 0
    /\ call[c].err \in {"auth", "config"}

\* After a failed re-authentication the cache is empty.
EmptyAfterFailedReauth ==
    \A c \in Callers : ReauthFailed(c) => token = NoToken

\* C30: under any interleaving of the calls on one TokenManager, a token the
\* remote API has answered with a 401 is not cached again and is not handed
\* to a later operation; the cached token is written only with the result
\* of a successful authentication or with null; after a failed
\* re-authentication the cache is empty.
C30_RejectedTokenGone ==
    /\ [][CacheWriteAsClaimed]_vars
    /\ [](NoRejectedHanded /\ EmptyAfterFailedReauth)

====
